---------------------------- MODULE Spec2Model ----------------------------
(***************************************************************************)
(* A model of logextractor.py: the macro-call argument segmenter           *)
(* (get_macro_args), the per-call-site record builder (process_log), the   *)
(* per-file traversal (parse_file / visit_node) and the driver             *)
(* (LogCompiler.parse_all, dump_db).                                       *)
(*                                                                         *)
(* Python strings are TLA+ strings; TLC evaluates Len, \o, Head, Tail and  *)
(* SubSeq on them, so startswith / endswith / slicing are computed         *)
(* character by character, as the code computes them.  A token is a record *)
(* with its spelling (the only attribute of a token the code reads).       *)
(* Optional values are records: None, or Some(v).                          *)
(*                                                                         *)
(* Four specifications share the module:                                   *)
(*   SpecSeg   the scan loop of get_macro_args, one token per step;        *)
(*   SpecLog   process_log applied to one call site;                       *)
(*   SpecFile  parse_file applied to one translation unit;                 *)
(*   Spec      the run of LogCompiler.parse_all over a process pool.       *)
(***************************************************************************)
EXTENDS Integers, Sequences, FiniteSets, TLC

VARIABLES
    node,          \* the cursor handed to get_macro_args / process_log
    idx,           \* get_macro_args: index of the next token of the loop (0-based)
    args,          \* get_macro_args: the argument groups flushed so far
    current_arg,   \* get_macro_args: the argument buffer
    paren_depth,   \* get_macro_args: the nesting-depth counter
    seg_pc,        \* get_macro_args: "loop", "returned" (line 73) or "exhausted" (line 83)
    seg_ret,       \* get_macro_args: the value returned
    log_pc,        \* process_log: "call" before the call, "done" after it
    log_out,       \* process_log: what the call gave, [raised, msg]
    tu,            \* parse_file: what index.parse gives for the file
    file_pc,       \* parse_file: "call" before the call, "done" after it
    file_out,      \* parse_file: what the call gave, [raised, results]
    argv,          \* __main__: [mode |-> "all" or "single", file |-> sys.argv[2]]
    config,        \* build/compile_commands.json: "ok", "missing" or "unloadable"
    cmds,          \* the compile commands of the compilation database
    main_pc,       \* __main__: where the main process is
    tasks,         \* parse_all: the submitted (src_path, args, root_dir)
    futures,       \* parse_all: per task, its state, the unit parsed, its outcome
    workers,       \* the pool's processes: alive?, _PROCESS_LOCAL_INDEX, task in hand
    indices,       \* how many times ci.Index.create() ran in the pool's processes
    log_messages,  \* LogCompiler.log_messages
    db             \* what dump_db wrote: None, or Some(the list)

segVars == <<idx, args, current_arg, paren_depth, seg_pc, seg_ret>>
logVars == <<log_pc, log_out>>
fileVars == <<tu, file_pc, file_out>>
runVars ==
    <<argv, config, cmds, main_pc, tasks, futures, workers, indices, log_messages, db>>
vars == <<node, segVars, logVars, fileVars, runVars>>

-----------------------------------------------------------------------------
(* Bounds of the model.                                                    *)

\* Longest token stream drawn for the scan loop, counted after NAME and "(".
MaxBody == 5

\* Longest token stream drawn for process_log, counted after NAME and "(".
MaxLogBody == 4

\* Most cursors below the root cursor of a translation unit.
MaxNodes == 2

\* Most compile commands in the compilation database.
MaxCmds == 2

\* os.cpu_count(): the processes of the pool.
MaxWorkers == 2

-----------------------------------------------------------------------------
(* Values.                                                                 *)

None == [some |-> FALSE]
Some(v) == [some |-> TRUE, val |-> v]

Tok(s) == [spelling |-> s]

\* The spellings of a sequence of tokens.
Toks(spellings) == [i \in 1..Len(spellings) |-> Tok(spellings[i])]

LOG_FUNCS ==
    { "LogDebug", "LogTrace", "LogPrintf", "LogPrint",
      "LogInfo", "LogError", "LogWarning", "LogPrintFormatInternal" }

root_dir == "/p/proj"

\* All sequences over S of length at most n.
RECURSIVE SeqsUpTo(_, _)
SeqsUpTo(S, n) ==
    IF n = 0 THEN { <<>> }
    ELSE LET shorter == SeqsUpTo(S, n - 1)
         IN  shorter \cup { Append(s, x) : s \in { t \in shorter : Len(t) = n - 1 }, x \in S }

-----------------------------------------------------------------------------
(* arg_str and get_macro_args.                                             *)

\* "".join(tok.spelling for tok in arg)
RECURSIVE arg_str(_)
arg_str(arg) ==
    IF arg = <<>> THEN "" ELSE Head(arg).spelling \o arg_str(Tail(arg))

\* The locals of get_macro_args before the loop (lines 57-59).
ScanStart ==
    [args |-> <<>>, current_arg |-> <<>>, paren_depth |-> 0,
     returned |-> FALSE, raised |-> FALSE]

\* A variant that keeps the nested "(" in the buffer as well.
OnOpenKeepsToken(st, tok) ==
    [st EXCEPT !.paren_depth = @ + 1, !.current_arg = Append(@, tok)]

\* elif t == "(": paren_depth += 1
OnOpen(st, tok) ==
    [st EXCEPT !.paren_depth = @ + 1]

\* A variant that returns at the closing ")" without flushing the buffer.
OnCloseNoFlush(st, tok) ==
    IF st.paren_depth = 0
    THEN [st EXCEPT !.returned = TRUE]
    ELSE [st EXCEPT !.paren_depth = @ - 1, !.current_arg = Append(@, tok)]

\* elif t == ")": the call ends at depth zero, else the token is kept
OnClose(st, tok) ==
    IF st.paren_depth = 0
    THEN [st EXCEPT !.args = Append(@, st.current_arg), !.returned = TRUE]
    ELSE [st EXCEPT !.paren_depth = @ - 1, !.current_arg = Append(@, tok)]

\* A variant that flushes the buffer without starting a new one.
OnSeparatorNoReset(st, tok) ==
    [st EXCEPT !.args = Append(@, st.current_arg)]

\* elif t == "," and paren_depth == 0: flush the buffer
OnSeparator(st, tok) ==
    [st EXCEPT !.args = Append(@, st.current_arg), !.current_arg = <<>>]

\* else: current_arg.append(tok)
OnOther(st, tok) ==
    [st EXCEPT !.current_arg = Append(@, tok)]

\* One iteration of the loop of get_macro_args on token tok at index i.
\* A variant in which every comma flushes the buffer, whatever the depth.
LoopBodySplitsNested(st, i, tok, macro_name) ==
    LET t == tok.spelling
    IN  IF i = 0 THEN (IF t = macro_name THEN st ELSE [st EXCEPT !.raised = TRUE])
        ELSE IF i = 1 THEN (IF t = "(" THEN st ELSE [st EXCEPT !.raised = TRUE])
        ELSE IF t = "(" THEN OnOpen(st, tok)
        ELSE IF t = ")" THEN OnClose(st, tok)
        ELSE IF t = "," THEN OnSeparator(st, tok)
        ELSE OnOther(st, tok)

LoopBody(st, i, tok, macro_name) ==
    LET t == tok.spelling
    IN  IF i = 0 THEN (IF t = macro_name THEN st ELSE [st EXCEPT !.raised = TRUE])
        ELSE IF i = 1 THEN (IF t = "(" THEN st ELSE [st EXCEPT !.raised = TRUE])
        ELSE IF t = "(" THEN OnOpen(st, tok)
        ELSE IF t = ")" THEN OnClose(st, tok)
        ELSE IF t = "," /\ st.paren_depth = 0 THEN OnSeparator(st, tok)
        ELSE OnOther(st, tok)

\* A variant that returns what was scanned when the stream ends.
NoTerminatorReturnsArgs(st) == Append(st.args, st.current_arg)

\* The value returned when the loop ends without meeting the closing ")".
NoTerminator(st) == <<>>

\* The loop from index i on; the result is [raised, ret].
RECURSIVE ScanFrom(_, _, _, _)
ScanFrom(st, i, toks, macro_name) ==
    IF st.raised THEN [raised |-> TRUE, ret |-> <<>>]
    ELSE IF st.returned THEN [raised |-> FALSE, ret |-> st.args]
    ELSE IF i >= Len(toks) THEN [raised |-> FALSE, ret |-> NoTerminator(st)]
    ELSE ScanFrom(LoopBody(st, i, toks[i + 1], macro_name), i + 1, toks, macro_name)

\* get_macro_args(cursor): [raised |-> AssertionError?, ret |-> list of groups]
get_macro_args(cursor) ==
    IF cursor.toks = <<>> THEN [raised |-> TRUE, ret |-> <<>>]
    ELSE ScanFrom(ScanStart, 0, cursor.toks, cursor.spelling)

-----------------------------------------------------------------------------
(* Strings and paths.                                                      *)

\* s.startswith(prefix), s.endswith(suffix)
startswith(s, prefix) ==
    Len(s) >= Len(prefix) /\ SubSeq(s, 1, Len(prefix)) = prefix

endswith(s, suffix) ==
    Len(s) >= Len(suffix) /\ SubSeq(s, Len(s) - Len(suffix) + 1, Len(s)) = suffix

\* s[1:-1]
StripEnds(s) == SubSeq(s, 2, Len(s) - 1)

\* The components of a path string: split at "/", empty and "." ones dropped
\* (pathlib's parsing of a POSIX path).
RECURSIVE SplitPath(_, _)
SplitPath(s, cur) ==
    LET flush == IF cur = "" \/ cur = "." THEN <<>> ELSE <<cur>>
    IN  IF s = "" THEN flush
        ELSE IF Head(s) = "/" THEN flush \o SplitPath(Tail(s), "")
        ELSE SplitPath(Tail(s), cur \o Head(s))

IsAbsolute(s) == startswith(s, "/")

PathParts(s) == SplitPath(s, "")

\* str() of a relative path with the given components.
RECURSIVE JoinParts(_)
JoinParts(parts) ==
    IF parts = <<>> THEN "."
    ELSE IF Len(parts) = 1 THEN parts[1]
    ELSE parts[1] \o "/" \o JoinParts(Tail(parts))

\* other's components are the first components of p's.
IsRelativeTo(p, other) ==
    /\ IsAbsolute(p) = IsAbsolute(other)
    /\ Len(PathParts(other)) <= Len(PathParts(p))
    /\ SubSeq(PathParts(p), 1, Len(PathParts(other))) = PathParts(other)

\* A variant that strips the root as a string prefix and never raises.
relative_to_by_prefix(p, other) ==
    [raised |-> "none",
     val |-> IF startswith(p, other) THEN SubSeq(p, Len(other) + 1, Len(p)) ELSE p]

\* str(Path(p).relative_to(other)): the remaining components, or ValueError.
relative_to(p, other) ==
    IF IsRelativeTo(p, other)
    THEN [raised |-> "none",
          val |-> JoinParts(SubSeq(PathParts(p), Len(PathParts(other)) + 1,
                                   Len(PathParts(p))))]
    ELSE [raised |-> "ValueError", val |-> ""]

-----------------------------------------------------------------------------
(* process_log.  The record it builds holds the fields computed by this    *)
(* file; regex and regex_types are what the external scanf package makes   *)
(* of fmt (scanf_compile, taken to return for every string) and are left   *)
(* out.                                                                    *)

LogMessage(fmt, file, line, column, macro, category) ==
    [fmt |-> fmt, file |-> file, line |-> line, column |-> column,
     macro |-> macro, category |-> category]

Raise(exc) == [raised |-> exc, msg |-> None]

Return(msg) == [raised |-> "none", msg |-> Some(msg)]

\* A variant that also takes LogPrintf to carry a category.
HasCategoryWide(macro) == macro \in { "LogDebug", "LogTrace", "LogPrintf" }

\* if macro in ("LogDebug", "LogTrace")
HasCategory(macro) == macro \in { "LogDebug", "LogTrace" }

\* The index of the format argument (0-based, as in the code).
FormatIndex(macro) == IF HasCategory(macro) THEN 1 ELSE 0

\* if fmt_str.startswith('"') and fmt_str.endswith('"')
IsQuoted(fmt_str) == startswith(fmt_str, "\"") /\ endswith(fmt_str, "\"")

\* A variant that strips only the leading quote.
ExtractLiteralKeepsLast(fmt_str) ==
    IF IsQuoted(fmt_str) THEN SubSeq(fmt_str, 2, Len(fmt_str)) ELSE fmt_str

\* Lines 123-127: the literal's contents; a non-literal is printed and kept.
ExtractLiteral(fmt_str) ==
    IF IsQuoted(fmt_str) THEN StripEnds(fmt_str) ELSE fmt_str

\* Lines 135-147: the location, made relative to the root, and the record.
BuildMessage(n, root, fmt_str, category) ==
    IF ~n.location.file.some THEN Raise("AttributeError")
    ELSE LET file_name == relative_to(n.location.file.val, root)
         IN  IF file_name.raised # "none" THEN Raise(file_name.raised)
             ELSE Return(LogMessage(fmt_str, Some(file_name.val), n.location.line,
                                    n.location.column, n.spelling, category))

\* process_log(node, root_dir): [raised |-> the exception or "none", msg]
process_log(n, root) ==
    LET macro == n.spelling
        got == get_macro_args(n)
        a == got.ret
        i == FormatIndex(macro)
    IN  IF got.raised THEN Raise("AssertionError")
        ELSE IF HasCategory(macro) /\ Len(a) < 1 THEN Raise("IndexError")
        ELSE IF Len(a) < i + 1 THEN Raise("IndexError")
        ELSE BuildMessage(n, root, ExtractLiteral(arg_str(a[i + 1])),
                          IF HasCategory(macro) THEN Some(arg_str(a[1])) ELSE None)

-----------------------------------------------------------------------------
(* parse_file and visit_node.  A cursor is a record with its kind,         *)
(* spelling, tokens, location and children.                                *)

\* if node.location.file: ... if not fname.startswith(root_dir): return
OutOfScope(n, root) ==
    n.location.file.some /\ ~startswith(n.location.file.val, root)

\* if node.kind == MACRO_INSTANTIATION: if node.spelling in LOG_FUNCS
IsLogCall(n) == n.kind = "MACRO_INSTANTIATION" /\ n.spelling \in LOG_FUNCS

\* visit_node(node, root_dir, results): [raised, results]; an exception
\* raised by process_log leaves every enclosing call.
RECURSIVE visit_node(_, _, _)
RECURSIVE VisitChildren(_, _, _)
visit_node(n, root, results) ==
    IF OutOfScope(n, root) THEN [raised |-> "none", results |-> results]
    ELSE LET out == IF IsLogCall(n) THEN process_log(n, root) ELSE Raise("none")
         IN  IF out.raised # "none" THEN [raised |-> out.raised, results |-> results]
             ELSE VisitChildren(n.children, root,
                                IF out.msg.some THEN Append(results, out.msg.val)
                                ELSE results)

\* for child in node.get_children(): visit_node(child, root_dir, results)
VisitChildren(children, root, results) ==
    IF children = <<>> THEN [raised |-> "none", results |-> results]
    ELSE LET first == visit_node(Head(children), root, results)
         IN  IF first.raised # "none" THEN first
             ELSE VisitChildren(Tail(children), root, first.results)

\* What index.parse gives: a translation unit, or TranslationUnitLoadError.
LoadError == [loaded |-> FALSE]
TranslationUnit(cursor) == [loaded |-> TRUE, cursor |-> cursor]

\* parse_file(filename, args, root_dir, index): [raised, results]
parse_file(unit, root) ==
    IF ~unit.loaded THEN [raised |-> "none", results |-> <<>>]
    ELSE LET out == visit_node(unit.cursor, root, <<>>)
         IN  IF out.raised # "none" THEN [raised |-> out.raised, results |-> <<>>]
             ELSE out

-----------------------------------------------------------------------------
(* LogCompiler: clean_args, the selection of tasks in parse_all, and the   *)
(* entry point of a pool process.                                          *)

\* a.startswith(('-O', '-W', '-g', '-f'))
HasBadPrefix(a) ==
    \E pre \in { "-O", "-W", "-g", "-f" } : startswith(a, pre)

\* The loop of clean_args over arglist, skip_next carried along.
RECURSIVE CleanFrom(_, _)
CleanFrom(arglist, skip_next) ==
    IF arglist = <<>> THEN <<>>
    ELSE LET a == Head(arglist)
         IN  IF a = "--" THEN <<>>
             ELSE IF skip_next THEN CleanFrom(Tail(arglist), FALSE)
             ELSE IF a = "-c" THEN CleanFrom(Tail(arglist), TRUE)
             ELSE IF HasBadPrefix(a) THEN CleanFrom(Tail(arglist), FALSE)
             ELSE <<a>> \o CleanFrom(Tail(arglist), FALSE)

\* LogCompiler.clean_args(args)
clean_args(arguments) ==
    CleanFrom(IF arguments = <<>> THEN <<>> ELSE Tail(arguments), FALSE)
        \o <<"-fsyntax-only">>

\* Path.resolve() of an absolute path without symbolic links: "." dropped,
\* "name/.." cancelled.
RECURSIVE ResolveParts(_, _)
ResolveParts(parts, done) ==
    IF parts = <<>> THEN done
    ELSE IF Head(parts) = ".."
         THEN ResolveParts(Tail(parts),
                           IF done = <<>> THEN <<>> ELSE SubSeq(done, 1, Len(done) - 1))
         ELSE ResolveParts(Tail(parts), Append(done, Head(parts)))

RECURSIVE JoinAbsolute(_)
JoinAbsolute(parts) ==
    IF parts = <<>> THEN "" ELSE "/" \o Head(parts) \o JoinAbsolute(Tail(parts))

\* A variant that leaves the path as the compile command spells it.
resolveUnchanged(path) == path

resolve(path) ==
    LET parts == ResolveParts(PathParts(path), <<>>)
    IN  IF parts = <<>> THEN "/" ELSE JoinAbsolute(parts)

\* exclude_dirs of parse_all, resolved.
exclude_dirs ==
    { resolve(root_dir \o "/src/bench"), resolve(root_dir \o "/src/test"),
      resolve(root_dir \o "/src/ipc/test"), resolve(root_dir \o "/src/qt/test"),
      resolve(root_dir \o "/src/wallet/test"), resolve(root_dir \o "/build") }

\* src_path.suffix == ".cpp": the last component ends in ".cpp" and has a stem.
HasCppSuffix(path) ==
    LET parts == PathParts(path)
    IN  /\ parts # <<>>
        /\ endswith(parts[Len(parts)], ".cpp")
        /\ Len(parts[Len(parts)]) > 4

\* The loop of parse_all over all_cmds: seen and tasks carried along.
RECURSIVE SelectFrom(_, _, _)
SelectFrom(all_cmds, seen, selected) ==
    IF all_cmds = <<>> THEN selected
    ELSE LET cmd == Head(all_cmds)
             src_path == resolve(cmd.filename)
         IN  IF src_path \in seen THEN SelectFrom(Tail(all_cmds), seen, selected)
             ELSE IF \E d \in exclude_dirs : IsRelativeTo(src_path, d)
                  THEN SelectFrom(Tail(all_cmds), seen \cup { src_path }, selected)
             ELSE IF HasCppSuffix(src_path)
                  THEN SelectFrom(Tail(all_cmds), seen \cup { src_path },
                                  Append(selected,
                                         [src_path |-> src_path,
                                          args |-> clean_args(cmd.arguments),
                                          root |-> root_dir]))
             ELSE SelectFrom(Tail(all_cmds), seen \cup { src_path }, selected)

\* The tasks parse_all submits (lines 272-286).
SelectTasks(all_cmds) == SelectFrom(all_cmds, {}, <<>>)

\* A variant that replaces the collection by the results of the last future.
ExtendReplaces(collected, out) ==
    IF out.raised = "none" THEN out.results ELSE collected

\* A variant in which a failed future empties the collection.
ExtendDropsOnFailure(collected, out) ==
    IF out.raised = "none" THEN collected \o out.results ELSE <<>>

\* try: self.log_messages.extend(future.result()) / except Exception: print
Extend(collected, out) ==
    IF out.raised = "none" THEN collected \o out.results ELSE collected

\* A future of the pool.
Future(state, unit, out) ==
    [state |-> state, unit |-> unit, out |-> out]

PendingFuture == Future("pending", LoadError, [raised |-> "none", results |-> <<>>])

\* A process of the pool.
Worker(alive, has_index, task) ==
    [alive |-> alive, has_index |-> has_index, task |-> task]

-----------------------------------------------------------------------------
(* The parts of the state a specification does not exercise stay at rest.  *)

SegIdle ==
    /\ idx = 0
    /\ args = <<>>
    /\ current_arg = <<>>
    /\ paren_depth = 0
    /\ seg_pc = "idle"
    /\ seg_ret = <<>>

LogIdle ==
    /\ log_pc = "idle"
    /\ log_out = Raise("none")

FileIdle ==
    /\ tu = LoadError
    /\ file_pc = "idle"
    /\ file_out = [raised |-> "none", results |-> <<>>]

RunIdle ==
    /\ argv = [mode |-> "all", file |-> ""]
    /\ config = "ok"
    /\ cmds = <<>>
    /\ main_pc = "idle"
    /\ tasks = <<>>
    /\ futures = <<>>
    /\ workers = <<>>
    /\ indices = 0
    /\ log_messages = <<>>
    /\ db = None

-----------------------------------------------------------------------------
(* SpecSeg: the scan loop, one token per step.                             *)

SegName == "LogPrintf"

\* The spellings a body token is drawn from.
SegAlphabet == { "(", ")", ",", "a", "b", "\"s\"" }

\* The two calls the specification names: NAME ( a , b , c ) and
\* NAME ( f ( x ) , "s" ).
FlatExample == <<"a", ",", "b", ",", "c", ")">>
NestedExample == <<"f", "(", "x", ")", ",", "\"s\"", ")">>

\* A call whose first argument holds a comma of its own: NAME ( f(a,b) , c ).
NestedCommaExample == <<"f", "(", "a", ",", "b", ")", ",", "c", ")">>

\* The token streams of a macro instantiation: the macro's name, the opening
\* parenthesis, then the body.
SegStreams ==
    { Toks(<<SegName, "(">> \o body) :
        body \in SeqsUpTo(SegAlphabet, MaxBody)
                    \cup { FlatExample, NestedExample, NestedCommaExample } }

InitSeg ==
    /\ node \in { [spelling |-> SegName, toks |-> ts] : ts \in SegStreams }
    /\ idx = 0
    /\ args = ScanStart.args
    /\ current_arg = ScanStart.current_arg
    /\ paren_depth = ScanStart.paren_depth
    /\ seg_pc = "loop"
    /\ seg_ret = <<>>
    /\ LogIdle
    /\ FileIdle
    /\ RunIdle

\* One iteration of "for idx, tok in enumerate(toks)".
SegStep ==
    /\ seg_pc = "loop"
    /\ idx < Len(node.toks)
    /\ LET st == LoopBody([args |-> args, current_arg |-> current_arg,
                           paren_depth |-> paren_depth,
                           returned |-> FALSE, raised |-> FALSE],
                          idx, node.toks[idx + 1], node.spelling)
       IN  /\ args' = st.args
           /\ current_arg' = st.current_arg
           /\ paren_depth' = st.paren_depth
           /\ seg_pc' = IF st.raised THEN "raised"
                        ELSE IF st.returned THEN "returned" ELSE "loop"
           /\ seg_ret' = IF st.returned THEN st.args ELSE seg_ret
    /\ idx' = idx + 1
    /\ UNCHANGED <<node, logVars, fileVars, runVars>>

\* The loop ends: return [] (line 83).
SegExhausted ==
    /\ seg_pc = "loop"
    /\ idx = Len(node.toks)
    /\ seg_pc' = "exhausted"
    /\ seg_ret' = NoTerminator([args |-> args, current_arg |-> current_arg,
                                paren_depth |-> paren_depth,
                                returned |-> FALSE, raised |-> FALSE])
    /\ UNCHANGED <<node, idx, args, current_arg, paren_depth, logVars, fileVars, runVars>>

NextSeg == SegStep \/ SegExhausted

SpecSeg == InitSeg /\ [][NextSeg]_vars

-----------------------------------------------------------------------------
(* SpecLog: process_log applied to one call site.                          *)

\* The macros a call site is drawn from: the two that carry a category and
\* two that do not.
LogMacros == { "LogDebug", "LogTrace", "LogPrintf", "LogInfo" }

\* The spellings a body token is drawn from: the punctuation, an identifier
\* and two string literals (one empty).
LogAlphabet == { "(", ")", ",", "net", "\"\"", "\"x\"" }

\* concat ( "a" , "b" ) as the format argument; a format with conversions,
\* alone and after a category, followed by its arguments; a format with
\* spaces and an escape.
ConcatExample == <<"concat", "(", "\"a\"", ",", "\"b\"", ")", ")">>
PlainExample == <<"\"%d-%s\"", ",", "n", ",", "s", ")">>
CategoryExample == <<"net", ",", "\"%d-%s\"", ",", "n", ",", "s", ")">>
SpacedExample == <<"\"peer %s: sent %d bytes\\n\"", ",", "n", ")">>

LogBodies ==
    SeqsUpTo(LogAlphabet, MaxLogBody)
        \cup { ConcatExample, PlainExample, CategoryExample, SpacedExample }

\* Where a call site can be: no file, a file under the root, a file in a
\* sibling directory whose name begins with the root's, a system header.
NoFile == None
InRootFile == Some("/p/proj/src/a.cpp")
SiblingFile == Some("/p/proj2/x.cpp")
SystemFile == Some("/usr/include/h.h")

SiteFiles == { NoFile, InRootFile, SiblingFile, SystemFile }

Location(file, line, column) == [file |-> file, line |-> line, column |-> column]

\* A macro instantiation cursor.
CallSite(macro, body, loc) ==
    [kind |-> "MACRO_INSTANTIATION", spelling |-> macro,
     toks |-> Toks(<<macro, "(">> \o body), location |-> loc]

LogSites ==
    { CallSite(m, b, Location(f, 7, 5)) :
        m \in LogMacros, b \in LogBodies, f \in SiteFiles }

InitLog ==
    /\ node \in LogSites
    /\ log_pc = "call"
    /\ log_out = Raise("none")
    /\ SegIdle
    /\ FileIdle
    /\ RunIdle

\* results.append(process_log(node, root_dir)), seen from the caller.
ProcessLog ==
    /\ log_pc = "call"
    /\ log_out' = process_log(node, root_dir)
    /\ log_pc' = "done"
    /\ UNCHANGED <<node, segVars, fileVars, runVars>>

NextLog == ProcessLog

SpecLog == InitLog /\ [][NextLog]_vars

-----------------------------------------------------------------------------
(* SpecFile: parse_file applied to one translation unit.                   *)

\* The cursors of a translation unit are drawn as a list in source order;
\* each is a child of the root cursor (depth 0) or of the nearest depth-0
\* cursor before it (depth 1).  The cursor at position k is on line k.
\*   "good"          LogPrintf ( "x" )
\*   "unterminated"  LogPrintf ( "x"        (the closing ")" is missing)
\*   "other_macro"   foo ( "x" ), a macro that is no log macro
\*   "decl"          a declaration named LogPrintf
CursorShapes == { "good", "unterminated", "other_macro", "decl" }

ShapeKind(shape) == IF shape = "decl" THEN "FUNCTION_DECL" ELSE "MACRO_INSTANTIATION"

ShapeSpelling(shape) == IF shape = "other_macro" THEN "foo" ELSE "LogPrintf"

ShapeBody(shape) == IF shape = "unterminated" THEN <<"\"x\"">> ELSE <<"\"x\"", ")">>

Items ==
    [shape : CursorShapes, file : SiteFiles, depth : { 0, 1 }]

ItemLists ==
    { l \in SeqsUpTo(Items, MaxNodes) : l # <<>> => l[1].depth = 0 }

\* The cursor of item k, its children still to be attached.
Cursor(items, k, children) ==
    [kind |-> ShapeKind(items[k].shape),
     spelling |-> ShapeSpelling(items[k].shape),
     toks |-> Toks(<<ShapeSpelling(items[k].shape), "(">> \o ShapeBody(items[k].shape)),
     location |-> Location(items[k].file, k, 5),
     children |-> children]

\* The depth-1 cursors that follow position k, up to the next depth-0 one.
RECURSIVE ChildrenFrom(_, _)
ChildrenFrom(items, k) ==
    IF k > Len(items) \/ items[k].depth = 0 THEN <<>>
    ELSE <<Cursor(items, k, <<>>)>> \o ChildrenFrom(items, k + 1)

\* The depth-0 cursors from position k on, each with its children.
RECURSIVE TopFrom(_, _)
TopFrom(items, k) ==
    IF k > Len(items) THEN <<>>
    ELSE IF items[k].depth = 0
         THEN <<Cursor(items, k, ChildrenFrom(items, k + 1))>> \o TopFrom(items, k + 1)
         ELSE TopFrom(items, k + 1)

\* tu.cursor: the root cursor, which has no file.
RootCursor(items) ==
    [kind |-> "TRANSLATION_UNIT", spelling |-> "/p/proj/src/a.cpp", toks |-> <<>>,
     location |-> Location(None, 0, 0), children |-> TopFrom(items, 1)]

Units ==
    { [loaded |-> TRUE, cursor |-> RootCursor(l), items |-> l] : l \in ItemLists }
        \cup { LoadError }

InitFile ==
    /\ tu \in Units
    /\ file_pc = "call"
    /\ file_out = [raised |-> "none", results |-> <<>>]
    /\ node = RootCursor(<<>>)
    /\ SegIdle
    /\ LogIdle
    /\ RunIdle

\* parse_file(filename, args, root_dir, index), seen from the caller.
ParseFile ==
    /\ file_pc = "call"
    /\ file_out' = parse_file(tu, root_dir)
    /\ file_pc' = "done"
    /\ UNCHANGED <<node, tu, segVars, logVars, runVars>>

NextFile == ParseFile

SpecFile == InitFile /\ [][NextFile]_vars

-----------------------------------------------------------------------------
(* Spec: a run of the program, __main__ to dump_db.                        *)

\* The file names the compilation database can hold: three sources, a
\* second spelling of the first, a test source and a C source.
SourceA == "/p/proj/src/a.cpp"
SourceB == "/p/proj/src/b.cpp"
SourceC == "/p/proj/src/wallet/c.cpp"
SourceADotted == "/p/proj/src/./a.cpp"
TestSource == "/p/proj/src/test/t.cpp"
CSource == "/p/proj/src/crc.c"
SharedHeader == "/p/proj/src/h.h"

CmdFiles == { SourceA, SourceB, SourceC, SourceADotted, TestSource, CSource }

\* s repeated k times.
RECURSIVE Repeat(_, _)
Repeat(s, k) == IF k = 0 THEN "" ELSE s \o Repeat(s, k - 1)

\* The arguments of the k-th compile command: the compiler, flags that
\* clean_args drops, an include flag that tells the commands apart, the
\* output and the source after "--".
CommandArguments(k, filename) ==
    <<"clang++", "-O2", "-I" \o Repeat("i", k), "-c", "-std=c++20", "-Wall", "--", filename>>

CommandLists ==
    { [k \in 1..Len(l) |-> [filename |-> l[k], arguments |-> CommandArguments(k, l[k])]] :
        l \in SeqsUpTo(CmdFiles, MaxCmds) }

\* What index.parse can give for a source: a unit with a call site of its
\* own and one in a shared header, a unit whose second call site lacks its
\* closing parenthesis, or a load error.
UnitWithSites(path) ==
    LET l == <<[shape |-> "good", file |-> Some(path), depth |-> 0],
               [shape |-> "good", file |-> Some(SharedHeader), depth |-> 0]>>
    IN  [loaded |-> TRUE, cursor |-> RootCursor(l), items |-> l]

UnitWithBrokenSite(path) ==
    LET l == <<[shape |-> "good", file |-> Some(path), depth |-> 0],
               [shape |-> "unterminated", file |-> Some(path), depth |-> 0]>>
    IN  [loaded |-> TRUE, cursor |-> RootCursor(l), items |-> l]

UnitsFor(path) == { UnitWithSites(path), UnitWithBrokenSite(path), LoadError }

Workers == 1..MaxWorkers

Init ==
    /\ argv \in { [mode |-> "all", file |-> ""],
                  [mode |-> "single", file |-> SourceA],
                  [mode |-> "single", file |-> SourceB] }
    /\ config \in { "ok", "missing", "unloadable" }
    /\ cmds \in IF config = "ok" THEN CommandLists ELSE { <<>> }
    /\ main_pc = "start"
    /\ tasks = <<>>
    /\ futures = <<>>
    /\ workers = [w \in Workers |-> Worker(FALSE, FALSE, 0)]
    /\ indices = 0
    /\ log_messages = <<>>
    /\ db = None
    /\ node = RootCursor(<<>>)
    /\ SegIdle
    /\ LogIdle
    /\ FileIdle

restVars == <<node, segVars, logVars, fileVars>>

\* A variant that only tests that compile_commands.json is a file.
AfterInitIgnoresLoadError(cfg) ==
    IF cfg = "missing" THEN "failed" ELSE "constructed"

\* if not compile_commands_path.is_file(): raise ...
\* try: CompilationDatabase.fromDirectory(...) except CompilationDatabaseError: raise ...
AfterInit(cfg) == IF cfg = "ok" THEN "constructed" ELSE "failed"

\* compiler = LogCompiler(sys.argv[1]): ArgumentError when the compile
\* commands are missing or cannot be loaded, and the program ends there.
Construct ==
    /\ main_pc = "start"
    /\ main_pc' = AfterInit(config)
    /\ log_messages' = <<>>
    /\ UNCHANGED <<argv, config, cmds, tasks, futures, workers, indices, db, restVars>>

\* parse_all up to the submission of every task (lines 254-299).
SubmitAll ==
    /\ main_pc = "constructed"
    /\ argv.mode = "all"
    /\ tasks' = SelectTasks(cmds)
    /\ futures' = [i \in 1..Len(SelectTasks(cmds)) |-> PendingFuture]
    /\ main_pc' = "collecting"
    /\ UNCHANGED <<argv, config, cmds, workers, indices, log_messages, db, restVars>>

\* A process of the pool starts and runs its initializer, worker_init (the
\* executor starts its processes one after the other).
WorkerStart(w) ==
    /\ main_pc = "collecting"
    /\ ~workers[w].alive
    /\ \A v \in 1..(w - 1) : workers[v].alive
    /\ \E i \in 1..Len(futures) : futures[i].state = "pending"
    /\ workers' = [workers EXCEPT ![w] = Worker(TRUE, TRUE, 0)]
    /\ indices' = indices + 1
    /\ UNCHANGED <<argv, config, cmds, main_pc, tasks, futures, log_messages, db, restVars>>

\* An idle process takes the oldest pending task off the call queue.
WorkerTake(w) ==
    /\ main_pc = "collecting"
    /\ workers[w].alive
    /\ workers[w].task = 0
    /\ \E i \in 1..Len(futures) :
          /\ futures[i].state = "pending"
          /\ \A j \in 1..(i - 1) : futures[j].state # "pending"
          /\ futures' = [futures EXCEPT ![i].state = "running"]
          /\ workers' = [workers EXCEPT ![w].task = i]
    /\ UNCHANGED <<argv, config, cmds, main_pc, tasks, indices, log_messages, db, restVars>>

\* A variant of the entry point that creates an index for every task.
NeedsIndexAlways(worker) == TRUE

\* if _PROCESS_LOCAL_INDEX is None
NeedsIndex(worker) == ~worker.has_index

\* worker_entrypoint(filename, args, root_dir) runs to its end in process w:
\* the index is created if the process has none, then parse_file runs.
WorkerFinish(w) ==
    /\ main_pc = "collecting"
    /\ workers[w].alive
    /\ workers[w].task # 0
    /\ LET i == workers[w].task
       IN  \E unit \in UnitsFor(tasks[i].src_path) :
              futures' = [futures EXCEPT
                             ![i] = Future("finished", unit,
                                           parse_file(unit, tasks[i].root))]
    /\ workers' = [workers EXCEPT ![w].task = 0, ![w].has_index = TRUE]
    /\ indices' = IF NeedsIndex(workers[w]) THEN indices + 1 ELSE indices
    /\ UNCHANGED <<argv, config, cmds, main_pc, tasks, log_messages, db, restVars>>

\* One iteration of "for i, future in enumerate(as_completed(futures))".
Collect ==
    /\ main_pc = "collecting"
    /\ \E i \in 1..Len(futures) :
          /\ futures[i].state = "finished"
          /\ log_messages' = Extend(log_messages, futures[i].out)
          /\ futures' = [futures EXCEPT ![i].state = "collected"]
    /\ UNCHANGED <<argv, config, cmds, main_pc, tasks, workers, indices, db, restVars>>

\* as_completed is exhausted and the executor is shut down: parse_all returns.
PoolExit ==
    /\ main_pc = "collecting"
    /\ \A i \in 1..Len(futures) : futures[i].state = "collected"
    /\ main_pc' = "dump"
    /\ workers' = [w \in Workers |-> [workers[w] EXCEPT !.alive = FALSE]]
    /\ UNCHANGED <<argv, config, cmds, tasks, futures, indices, log_messages, db, restVars>>

\* The first compile command for the file, as getCompileCommands finds it.
CommandsFor(filename) ==
    SelectSeq(cmds, LAMBDA c : resolve(c.filename) = resolve(filename))

\* compiler.parse_file(sys.argv[2]): no compile command raises ArgumentError;
\* an exception of the module-level parse_file is not caught either.
ParseSingle ==
    /\ main_pc = "constructed"
    /\ argv.mode = "single"
    /\ IF CommandsFor(argv.file) = <<>>
       THEN /\ main_pc' = "failed"
            /\ UNCHANGED log_messages
       ELSE \E unit \in UnitsFor(argv.file) :
              LET out == parse_file(unit, root_dir)
              IN  /\ main_pc' = IF out.raised = "none" THEN "dump" ELSE "failed"
                  /\ log_messages' = log_messages \o out.results
    /\ UNCHANGED <<argv, config, cmds, tasks, futures, workers, indices, db, restVars>>

\* compiler.dump_db(sys.argv[-1])
DumpDb ==
    /\ main_pc = "dump"
    /\ db' = Some(log_messages)
    /\ main_pc' = "exit"
    /\ UNCHANGED <<argv, config, cmds, tasks, futures, workers, indices, log_messages, restVars>>

Next ==
    \/ Construct
    \/ SubmitAll
    \/ \E w \in Workers : WorkerStart(w)
    \/ \E w \in Workers : WorkerTake(w)
    \/ \E w \in Workers : WorkerFinish(w)
    \/ Collect
    \/ PoolExit
    \/ ParseSingle
    \/ DumpDb

Spec == Init /\ [][Next]_vars

-----------------------------------------------------------------------------
(* What the scanned token stream says, read off the stream itself.         *)

\* The spelling of the k-th token (1-based) of the stream under scan.
Sp(k) == node.toks[k].spelling

NumToks == Len(node.toks)

\* The body of the call: what follows NAME and "(".
BodySpellings == [k \in 1..(NumToks - 2) |-> Sp(k + 2)]

\* Opening minus closing parentheses among tokens 3..k-1.
NestBefore(k) ==
    Cardinality({ j \in 3..(k - 1) : Sp(j) = "(" })
        - Cardinality({ j \in 3..(k - 1) : Sp(j) = ")" })

\* Token k closes the call: a ")" met with no nested group open, none before it.
ClosesCall(k) ==
    /\ Sp(k) = ")"
    /\ NestBefore(k) = 0
    /\ \A j \in 3..(k - 1) : ~(Sp(j) = ")" /\ NestBefore(j) = 0)

Terminated == \E k \in 3..NumToks : ClosesCall(k)

\* NAME ( a1 , ... , an ): no nested parentheses, the last token closes the call.
FlatCall ==
    /\ NumToks >= 3
    /\ Sp(NumToks) = ")"
    /\ \A k \in 3..(NumToks - 1) : Sp(k) \notin { "(", ")" }

FlatCommas == { k \in 3..(NumToks - 1) : Sp(k) = "," }

\* Where argument i of a flat call starts and ends (token positions).
FlatArgEnd(i) ==
    IF i = Cardinality(FlatCommas) + 1 THEN NumToks
    ELSE CHOOSE k \in FlatCommas : Cardinality({ j \in FlatCommas : j < k }) = i - 1

FlatArgStart(i) == IF i = 1 THEN 2 ELSE FlatArgEnd(i - 1)

\* The spellings of tokens lo..hi, concatenated.
RECURSIVE TextOf(_, _)
TextOf(lo, hi) == IF lo > hi THEN "" ELSE Sp(lo) \o TextOf(lo + 1, hi)

\* The source text of argument i of a flat call.
FlatArgText(i) == TextOf(FlatArgStart(i) + 1, FlatArgEnd(i) - 1)

SegDone == seg_pc \in { "returned", "exhausted" }

\* Every token held in a group, flushed or in the buffer.
RECURSIVE Flatten(_)
Flatten(groups) ==
    IF groups = <<>> THEN <<>> ELSE Head(groups) \o Flatten(Tail(groups))

\* (at the return of line 73 the buffer has just been flushed as the last group)
HeldTokens ==
    IF seg_pc = "returned" THEN Flatten(args) ELSE Flatten(args) \o current_arg

Count(seq, s) == Cardinality({ i \in 1..Len(seq) : seq[i].spelling = s })

-----------------------------------------------------------------------------
(* Claims about get_macro_args, checked under SpecSeg.                     *)

\* C1: a flat call NAME ( a1 , ... , an ) yields exactly n = 1 + (number of
\* commas) groups, in source order, group i spelling out the text of ai;
\* NAME ( a , b , c ) yields the three groups a, b, c.
C1_FlatCallGroups ==
    (SegDone /\ FlatCall) =>
        /\ seg_pc = "returned"
        /\ Len(seg_ret) = 1 + Cardinality(FlatCommas)
        /\ \A i \in 1..Len(seg_ret) : arg_str(seg_ret[i]) = FlatArgText(i)
        /\ (BodySpellings = FlatExample =>
                [i \in 1..Len(seg_ret) |-> arg_str(seg_ret[i])] = <<"a", "b", "c">>)

C1_Witness ==
    /\ seg_pc = "returned"
    /\ BodySpellings = FlatExample
    /\ Len(seg_ret) = 3

\* C2: a nested "(" is never appended to a group and only raises the depth
\* counter; every ")" met at depth > 0 is appended to the current group;
\* NAME ( f ( x ) , "s" ) yields two groups, the first spelling fx).
C2_NestedAsymmetry ==
    /\ Count(HeldTokens, "(") = 0
    /\ Count(Flatten(seg_ret), "(") = 0
    /\ seg_pc = "loop" => paren_depth = NestBefore(idx + 1)
    /\ Count(HeldTokens, ")")
         = Cardinality({ k \in 3..idx : Sp(k) = ")" /\ NestBefore(k) > 0 })
    /\ (seg_pc = "loop" /\ idx >= 3 /\ Sp(idx) = ")") =>
           /\ current_arg # <<>>
           /\ current_arg[Len(current_arg)] = node.toks[idx]
    /\ (SegDone /\ BodySpellings = NestedExample) =>
           /\ Len(seg_ret) = 2
           /\ arg_str(seg_ret[1]) = "fx)"
           /\ arg_str(seg_ret[2]) = "\"s\""

C2_Witness ==
    /\ seg_pc = "returned"
    /\ BodySpellings = NestedExample
    /\ arg_str(seg_ret[1]) = "fx)"

\* C3: when no ")" is ever met at depth zero, get_macro_args returns the
\* empty list, whatever was scanned before the end of the stream.
C3_UnterminatedEmpty ==
    (SegDone /\ ~Terminated) => (seg_pc = "exhausted" /\ seg_ret = <<>>)

C3_Witness ==
    /\ seg_pc = "exhausted"
    /\ ~Terminated
    /\ args # <<>>
    /\ current_arg # <<>>
    /\ seg_ret = <<>>
-----------------------------------------------------------------------------
(* Claims about process_log, checked under SpecLog.                        *)

\* The argument groups of the call site and the text of its format argument.
Groups == get_macro_args(node).ret

HasFormatGroup == Len(Groups) >= FormatIndex(node.spelling) + 1

FormatText == arg_str(Groups[FormatIndex(node.spelling) + 1])

Built == log_pc = "done" /\ log_out.raised = "none"

Quote(s) == "\"" \o s \o "\""

RECURSIVE CountChar(_, _)
CountChar(s, c) ==
    IF s = "" THEN 0
    ELSE (IF Head(s) = c THEN 1 ELSE 0) + CountChar(Tail(s), c)

\* The text is a quoted string literal: it begins and ends with a double
\* quote, two characters at least.
IsLiteralText(t) == Len(t) >= 2 /\ Head(t) = "\"" /\ SubSeq(t, Len(t), Len(t)) = "\""

\* fmt is what the group spells, as it stands or without its quotes.
FmtTakenFrom(fmt, group) == fmt = arg_str(group) \/ Quote(fmt) = arg_str(group)

\* C5: a record built by process_log has a category if and only if its macro
\* is LogDebug or LogTrace; the category is then the text of group 0 and the
\* format comes from group 1; otherwise the format comes from group 0.
C5_CategoryIffCategoryMacro ==
    Built =>
        LET m == log_out.msg.val
        IN  /\ m.macro = node.spelling
            /\ m.category.some <=> m.macro \in { "LogDebug", "LogTrace" }
            /\ m.category.some =>
                   /\ Len(Groups) >= 2
                   /\ m.category.val = arg_str(Groups[1])
                   /\ FmtTakenFrom(m.fmt, Groups[2])
            /\ ~m.category.some =>
                   /\ Len(Groups) >= 1
                   /\ FmtTakenFrom(m.fmt, Groups[1])

C5_Witness ==
    /\ Built
    /\ node.spelling = "LogDebug"
    /\ log_out.msg.val.category = Some("net")
    /\ log_out.msg.val.fmt = "%d-%s"

\* C6: a call site whose format argument is not a quoted string literal
\* yields no record.
C6_NonLiteralNeverBuilt ==
    (log_pc = "done" /\ HasFormatGroup /\ ~IsLiteralText(FormatText)) =>
        ~log_out.msg.some

\* C7: when the format argument spells "s" for a string s without a double
\* quote (the empty string included), the extracted fmt is exactly s.
C7_LiteralRoundTrip ==
    (Built /\ IsLiteralText(FormatText) /\ CountChar(FormatText, "\"") = 2) =>
        /\ Quote(log_out.msg.val.fmt) = FormatText
        /\ CountChar(log_out.msg.val.fmt, "\"") = 0

C7_Witness ==
    /\ Built
    /\ FormatText = "\"\""
    /\ log_out.msg.val.fmt = ""

\* C9: a recognized call site with no resolvable file still yields a record,
\* with file = none.
C9_NoFileStillBuilt ==
    (log_pc = "done" /\ HasFormatGroup /\ ~node.location.file.some) =>
        /\ log_out.raised = "none"
        /\ log_out.msg.some
        /\ log_out.msg.val.file = None
-----------------------------------------------------------------------------
(* Claims about parse_file, checked under SpecFile.                        *)

NumItems == IF tu.loaded THEN Len(tu.items) ELSE 0

\* The cursor at position k of the translation unit (it is on line k).
ItemCursor(k) == Cursor(tu.items, k, <<>>)

\* The position of the depth-0 cursor above a depth-1 cursor.
ParentOf(k) ==
    CHOOSE j \in 1..(k - 1) :
        /\ tu.items[j].depth = 0
        /\ \A h \in (j + 1)..(k - 1) : tu.items[h].depth = 1

\* The traversal gets to cursor k: neither it nor the cursor above it is
\* cut off by the scope test.
Reached(k) ==
    /\ ~OutOfScope(ItemCursor(k), root_dir)
    /\ tu.items[k].depth = 1 => ~OutOfScope(ItemCursor(ParentOf(k)), root_dir)

\* A recognized call site whose segmentation finds no closing parenthesis.
Malformed(k) ==
    IsLogCall(ItemCursor(k)) /\ get_macro_args(ItemCursor(k)).ret = <<>>

\* A recognized call site with a literal format, in a file under the root.
SoundSite(k) ==
    /\ tu.items[k].shape = "good"
    /\ tu.items[k].file = InRootFile

\* The path lies under the root directory: it is the root, or the root
\* followed by "/" and more.
UnderRoot(path) == path = root_dir \/ startswith(path, root_dir \o "/")

FileDone == file_pc = "done"

ResultLines == { file_out.results[i].line : i \in 1..Len(file_out.results) }

\* C4: a call site whose segmentation returns the empty list is skipped and
\* yields no record, while the other recognized call sites of the file are
\* processed and their records are in the result of parse_file.
C4_MalformedSiteSkipped ==
    (FileDone /\ \E k \in 1..NumItems : Malformed(k) /\ Reached(k)) =>
        /\ file_out.raised = "none"
        /\ \A k \in 1..NumItems : Malformed(k) => k \notin ResultLines
        /\ \A j \in 1..NumItems : (SoundSite(j) /\ Reached(j)) => j \in ResultLines

\* C8: a call site whose file does not lie under the project root gives no
\* record, recognized macro or not: every record of the result comes from a
\* cursor whose file lies under the root.
C8_OnlyUnderRoot ==
    FileDone =>
        /\ \A i \in 1..Len(file_out.results) :
              LET m == file_out.results[i]
              IN  /\ m.line \in 1..NumItems
                  /\ tu.items[m.line].file.some
                  /\ UnderRoot(tu.items[m.line].file.val)
                  /\ m.file.some
                  /\ root_dir \o "/" \o m.file.val = tu.items[m.line].file.val
        /\ \A k \in 1..NumItems :
              (tu.items[k].file.some /\ ~UnderRoot(tu.items[k].file.val)) =>
                  k \notin ResultLines

C8_Witness ==
    /\ FileDone
    /\ file_out.raised = "none"
    /\ Len(file_out.results) = 1
    /\ \E k \in 1..NumItems :
          /\ tu.items[k].shape = "good"
          /\ tu.items[k].file = SystemFile
          /\ tu.items[k].depth = 0
-----------------------------------------------------------------------------
(* Claims about the run, checked under Spec.                               *)

SetOf(seq) == { seq[i] : i \in 1..Len(seq) }

\* Every task of parse_all has completed and its future has been consumed.
AllCollected ==
    /\ argv.mode = "all"
    /\ main_pc \in { "collecting", "dump", "exit" }
    /\ \A i \in 1..Len(futures) : futures[i].state = "collected"

\* The records that extracting the file of task i alone produces: those
\* parse_file returns for its unit, none when parse_file raises.
AloneRecords(i) ==
    LET out == parse_file(futures[i].unit, root_dir)
    IN  IF out.raised = "none" THEN SetOf(out.results) ELSE {}

\* C10: once every task has completed, whatever the order of completion,
\* the collected records, as a set, are the union over the files of the
\* records each file yields when extracted alone.
C10_ConcurrentEqualsSequential ==
    AllCollected =>
        SetOf(log_messages) = UNION { AloneRecords(i) : i \in 1..Len(tasks) }

\* Two files, collected in the reverse of their submission order.
C10_Witness ==
    /\ AllCollected
    /\ Len(tasks) = 2
    /\ AloneRecords(1) # {}
    /\ AloneRecords(2) # {}
    /\ log_messages # <<>>
    /\ log_messages[1] \in AloneRecords(2)
    /\ log_messages[1] \notin AloneRecords(1)

\* Task i failed: its file could not be loaded, or its task raised.
TaskFailed(i) == ~futures[i].unit.loaded \/ futures[i].out.raised # "none"

\* C11: when the processing of one file fails (the parser cannot load it, or
\* its task raises), no other task is cancelled: every future still runs to
\* its end and is consumed, and the records of every file that completed
\* successfully are all in the collection.
C11_FailureIsolated ==
    /\ \A i \in 1..Len(futures) :
          futures[i].state \in { "pending", "running", "finished", "collected" }
    /\ (argv.mode = "all" /\ main_pc \in { "dump", "exit" }) =>
          \A i \in 1..Len(futures) : futures[i].state = "collected"
    /\ \A i \in 1..Len(futures) :
          (futures[i].state = "collected" /\ ~TaskFailed(i)) =>
              /\ futures[i].out = parse_file(futures[i].unit, root_dir)
              /\ SetOf(futures[i].out.results) \subseteq SetOf(log_messages)

\* A task that raised and a file that did not load, collected before the
\* file whose records are kept.
C11_Witness ==
    /\ AllCollected
    /\ Len(tasks) = 2
    /\ futures[1].out.raised = "IndexError"
    /\ ~TaskFailed(2)
    /\ Len(log_messages) = 2

\* C12: a run that got past configuration loading always reaches dump_db and
\* writes what it extracted, in the all-files mode and in the single-file
\* mode, whatever error a file's processing meets; the program ends without
\* output only on a fatal configuration error (a single file that the
\* compilation database does not know is counted with those).
C12_RunAlwaysWritesOutput ==
    (main_pc = "failed" /\ db = None) =>
        \/ config # "ok"
        \/ (argv.mode = "single" /\ CommandsFor(argv.file) = <<>>)

\* The call site of a record: file, line and column.
SiteOf(msg) == <<msg.file, msg.line, msg.column>>

\* C13: the database that is written never holds two records for the same
\* call site (file, line, column), even when the site lies in a header under
\* the root that several of the processed source files include.
C13_OneRecordPerSite ==
    db.some =>
        \A i, j \in 1..Len(db.val) :
            SiteOf(db.val[i]) = SiteOf(db.val[j]) => i = j

\* C14: when build/compile_commands.json is missing or cannot be loaded,
\* constructing LogCompiler raises and the program ends there: no file is
\* parsed, no task is submitted, no pool process is started and no output
\* is written.
C14_ConfigurationErrorIsFatal ==
    config # "ok" =>
        /\ main_pc \in { "start", "failed" }
        /\ tasks = <<>>
        /\ futures = <<>>
        /\ \A w \in Workers : ~workers[w].alive
        /\ indices = 0
        /\ log_messages = <<>>
        /\ db = None

C14_Witness == main_pc = "failed" /\ config = "unloadable"

-----------------------------------------------------------------------------
(* Further claims about get_macro_args, checked under SpecSeg.             *)

\* The commas among tokens 3..k met at depth zero, and those met deeper.
TopCommas(k) == { j \in 3..k : Sp(j) = "," /\ NestBefore(j) = 0 }

NestedCommas(k) == { j \in 3..k : Sp(j) = "," /\ NestBefore(j) > 0 }

\* C15: a comma met while the depth counter is greater than zero never
\* starts a new group and is appended to the current group, so a terminated
\* call yields 1 + (commas met at depth zero) groups; NAME ( f(a,b) , c )
\* yields exactly 2 groups.
C15_NestedCommaKept ==
    /\ seg_pc = "loop" =>
          /\ Len(args) = Cardinality(TopCommas(idx))
          /\ Count(HeldTokens, ",") = Cardinality(NestedCommas(idx))
          /\ (idx >= 3 /\ idx \in NestedCommas(idx)) =>
                /\ current_arg # <<>>
                /\ current_arg[Len(current_arg)] = node.toks[idx]
    /\ seg_pc = "returned" =>
          /\ Len(seg_ret) = 1 + Cardinality(TopCommas(idx - 1))
          /\ Count(Flatten(seg_ret), ",") = Cardinality(NestedCommas(idx - 1))
    /\ (seg_pc = "returned" /\ BodySpellings = NestedCommaExample) =>
          Len(seg_ret) = 2

C15_Witness ==
    /\ seg_pc = "returned"
    /\ BodySpellings = NestedCommaExample
    /\ Len(seg_ret) = 2
    /\ Count(seg_ret[1], ",") = 1

\* The tokens among lo..hi that belong to a group: all but the nested "("
\* and the commas met at depth zero.
RECURSIVE KeptTokens(_, _)
KeptTokens(lo, hi) ==
    IF lo > hi THEN <<>>
    ELSE IF Sp(hi) = "(" \/ (Sp(hi) = "," /\ NestBefore(hi) = 0)
         THEN KeptTokens(lo, hi - 1)
         ELSE Append(KeptTokens(lo, hi - 1), node.toks[hi])

\* C19: get_macro_args returns a non-empty list whenever the closing
\* parenthesis is reached at depth zero, and NAME ( ) yields one group with
\* no tokens; the empty list is returned if and only if the call is
\* unterminated; the depth counter is never negative; no token after the
\* closing parenthesis is added to a group.
C19_EmptyIffUnterminated ==
    /\ paren_depth >= 0
    /\ seg_pc = "returned" =>
          /\ ClosesCall(idx)
          /\ seg_ret # <<>>
          /\ Flatten(seg_ret) = KeptTokens(3, idx - 1)
    /\ SegDone =>
          /\ seg_ret = <<>> <=> ~Terminated
          /\ seg_ret = get_macro_args(node).ret
          /\ seg_pc = "returned" <=> Terminated
    /\ (SegDone /\ BodySpellings = <<")">>) => seg_ret = << <<>> >>

\* NAME ( ): the closing parenthesis is reached with nothing in the buffer.
C19_Witness ==
    /\ seg_pc = "returned"
    /\ BodySpellings = <<")">>
    /\ seg_ret = << <<>> >>

-----------------------------------------------------------------------------
(* Further claims about parse_file, checked under SpecFile.                *)

\* Cursor k lies below a cursor whose file is known and is not under the root.
BelowOutOfRoot(k) ==
    /\ tu.items[k].depth = 1
    /\ tu.items[ParentOf(k)].file.some
    /\ ~UnderRoot(tu.items[ParentOf(k)].file.val)

\* C16: the traversal returns at a node whose file is known and lies outside
\* the project root without visiting its descendants, so no record comes
\* from a descendant of such a node, even from a recognized call site that
\* is itself under the root.
C16_NothingBelowOutOfRoot ==
    FileDone =>
        \A k \in 1..NumItems : BelowOutOfRoot(k) => k \notin ResultLines

\* What the traversal does guarantee: nothing comes from below a node that
\* the scope test of visit_node rejects (its path string does not start
\* with the root string).
NothingBelowFiltered ==
    FileDone =>
        \A k \in 1..NumItems :
            (tu.items[k].depth = 1 /\ OutOfScope(ItemCursor(ParentOf(k)), root_dir))
                => k \notin ResultLines

\* C20: every recognized call site with a known file that passes the scope
\* test of visit_node is relativized against the root without error, so a
\* site the filter accepts never makes the extraction of the file fail;
\* this includes /p/proj2/x.cpp with the root /p/proj.  (relative_to is
\* called only on a site the scope test has accepted, and ValueError is
\* what it raises.)
C20_FilterAgreesWithRelativize ==
    FileDone => file_out.raised # "ValueError"

-----------------------------------------------------------------------------
(* Further claims about the run, checked under Spec.                       *)

\* C17: in every process of the pool the parser index is created at most
\* once, by worker_init or by the first worker_entrypoint call, and every
\* file the process handles is parsed with it; the number of indices the
\* pool has created never exceeds the number of its processes.
C17_OneIndexPerProcess ==
    /\ indices = Cardinality({ w \in Workers : workers[w].has_index })
    /\ \A w \in Workers : workers[w].alive => workers[w].has_index
    /\ indices <= MaxWorkers
    /\ \A w \in Workers : workers[w].task # 0 => workers[w].has_index

\* One process has handled two files, with the one index it created.
C17_Witness ==
    /\ AllCollected
    /\ Len(tasks) = 2
    /\ indices = 1
    /\ \A w \in Workers : workers[w].task = 0

\* The path a compile command's file name stands for.
Canon(filename) == IF filename = SourceADotted THEN SourceA ELSE filename

ExcludedDirs ==
    { "/p/proj/src/bench", "/p/proj/src/test", "/p/proj/src/ipc/test",
      "/p/proj/src/qt/test", "/p/proj/src/wallet/test", "/p/proj/build" }

\* A path that parse_all is to submit: a .cpp file under no excluded directory.
Eligible(path) ==
    /\ endswith(path, ".cpp")
    /\ \A d \in ExcludedDirs : path # d /\ ~startswith(path, d \o "/")

\* The first compile command for the same file as command k.
FirstOccurrence(k) ==
    CHOOSE j \in 1..k :
        /\ Canon(cmds[j].filename) = Canon(cmds[k].filename)
        /\ \A h \in 1..(j - 1) : Canon(cmds[h].filename) # Canon(cmds[k].filename)

Submitted == argv.mode = "all" /\ main_pc \in { "collecting", "dump", "exit" }

\* C18: every task parse_all submits is for a resolved path with the .cpp
\* suffix that lies under none of the excluded directories, and no path is
\* submitted twice; every such path among the compile commands is submitted
\* exactly once, with the arguments of its first occurrence.
C18_TaskSelection ==
    Submitted =>
        /\ Len(futures) = Len(tasks)
        /\ \A t \in 1..Len(tasks) :
              /\ Eligible(tasks[t].src_path)
              /\ \E k \in 1..Len(cmds) : Canon(cmds[k].filename) = tasks[t].src_path
        /\ \A t, u \in 1..Len(tasks) :
              tasks[t].src_path = tasks[u].src_path => t = u
        /\ \A k \in 1..Len(cmds) :
              Eligible(Canon(cmds[k].filename)) =>
                  \E t \in 1..Len(tasks) :
                      /\ tasks[t].src_path = Canon(cmds[k].filename)
                      /\ tasks[t].args = clean_args(cmds[FirstOccurrence(k)].arguments)

\* The same file listed twice, under two spellings: one task, with the
\* arguments of the first command.
C18_Witness ==
    /\ Submitted
    /\ Len(cmds) = 2
    /\ cmds[1].filename = SourceADotted
    /\ cmds[2].filename = SourceA
    /\ Len(tasks) = 1
    /\ tasks[1].src_path = SourceA
    /\ tasks[1].args = <<"-Ii", "-fsyntax-only">>

=============================================================================
